---- MODULE Spec2Model ----
(***************************************************************************)
(* A model of flask-exceptional (src/flask_exceptional.py): the extension   *)
(* that wraps a Flask application's exception handlers, builds a sanitized  *)
(* error report and posts it to the Exceptional collector.                  *)
(*                                                                          *)
(* Conventions.  A Python value carries its type as the first element of a  *)
(* tuple: <<"None">>, <<"str", s>>, <<"list", l>>, <<"dict", d>>.  A        *)
(* mapping (dict) is a function whose DOMAIN is its key set.  The keys of   *)
(* the mappings that go through the field filter, and the filter patterns,  *)
(* are sequences of symbols: a symbol is a literal run of characters, and   *)
(* in a pattern "." and "*" are the regular-expression metacharacters.      *)
(***************************************************************************)
EXTENDS Integers, Sequences, FiniteSets, TLC

VARIABLES
    config,                 \* app.config: name -> value
    fpc,                    \* filter harness: "call" before __filter ran, "done" after
    fname,                  \* filter harness: the filter slot (configuration name)
    fdata,                  \* filter harness: the input mapping
    fresult,                \* filter harness: the mapping __filter returned
    xpc,                    \* extractor harness: per request, "call" or "done"
    xreq,                   \* extractor harness: the two requests
    xout,                   \* extractor harness: what __get_request_data returned
    xseed,                  \* extractor harness: the parameters after the JSON seeding
    pub,                    \* the publish() calls made, in order
    encode_basestring,      \* json.encoder.encode_basestring, process-wide
    bpc,                    \* per building thread: its position in _post_data
    bsaved,                 \* per building thread: its local encode_basestring
    bin,                    \* per building thread: the byte string it serializes
    bout,                   \* per building thread: what json.dumps(...).encode gave
    url,                    \* self.url of each Exceptional instance
    protocol_version,       \* self.__protocol_version of each instance
    extensions,             \* app.extensions
    handle_exception,       \* app.handle_exception: the instances wrapping Flask's own
    handle_http_exception,  \* app.handle_http_exception: likewise
    log,                    \* app.logger: the records logged, in order
    inits,                  \* number of init_app calls made
    pc,                     \* per request: "idle", "active" (context pushed), "done"
    req,                    \* per request context: its request object
    exceptional_context,    \* per request context: the exceptional_context attribute
    g,                      \* per request context: g.exceptional
    calls,                  \* per request: the context() calls made, in order
    err,                    \* per request: the error the application raised
    post,                   \* per request: the _post_data calls made for it
    handled,                \* per request: the exceptions passed to Flask's own handler
    result                  \* per request: what the app's handler returned or raised

vars ==
    <<config, fpc, fname, fdata, fresult, xpc, xreq, xout, url, protocol_version,
      extensions, handle_exception, handle_http_exception, log, inits, pc, req,
      exceptional_context, g, calls, err, post, handled, result, xseed, pub,
      encode_basestring, bpc, bsaved, bin, bout>>

avars == <<url, protocol_version, extensions, handle_exception, handle_http_exception,
           log, inits>>
rvars == <<pc, req, exceptional_context, g, calls, err, post, handled, result>>

fvars == <<fpc, fname, fdata, fresult>>
xvars == <<xpc, xreq, xout, xseed>>
pvars == <<pub>>
bvars == <<encode_basestring, bpc, bsaved, bin, bout>>

----------------------------------------------------------------------------
(* Values *)

\* Python values carry their type: None, a string, a list, a mapping, an
\* object that is none of these (and that json cannot serialize).
None == <<"None">>
Str(s) == <<"str", s>>
List(l) == <<"list", l>>
Dict(d) == <<"dict", d>>
Obj == <<"object">>
PyInt(n) == <<"int", n>>

\* The redaction marker of __filter.
FILTERED == Str("[FILTERED]")

\* The outcome of a call: a returned value or a raised exception.
Ok(v) == <<"ok", v>>
Raise(e) == <<"raise", e>>
IsOk(r) == r[1] = "ok"

\* d.update(e): the keys of e overwrite, the other keys of d stay.
Update(d, e) ==
    [k \in (DOMAIN d) \cup (DOMAIN e) |-> IF k \in DOMAIN e THEN e[k] ELSE d[k]]

----------------------------------------------------------------------------
(* re.match(item, key): the pattern matches a prefix of the key. *)

\* One pattern symbol against one key symbol: "." matches any symbol.
CharOk(p, c) == p = "." \/ p = c

RECURSIVE match(_, _)
match(item, key) ==
    IF item = <<>> THEN TRUE
    ELSE IF Len(item) >= 2 /\ item[2] = "*"
         THEN \/ match(Tail(Tail(item)), key)
              \/ /\ key # <<>>
                 /\ CharOk(item[1], key[1])
                 /\ match(item, Tail(key))
         ELSE /\ key # <<>>
              /\ CharOk(item[1], key[1])
              /\ match(Tail(item), Tail(key))

----------------------------------------------------------------------------
(* Exceptional.__filter *)

\* The five filter slots.
FILTER_NAMES ==
    { "EXCEPTIONAL_COOKIE_FILTER", "EXCEPTIONAL_ENVIRONMENT_FILTER",
      "EXCEPTIONAL_HEADER_FILTER", "EXCEPTIONAL_PARAMETER_FILTER",
      "EXCEPTIONAL_SESSION_FILTER" }

\* app.config.get(name): None when the name is not configured.
ConfigGet(cfg, name) == IF name \in DOMAIN cfg THEN cfg[name] ELSE None

\* Truth value of a filter setting: None and the empty list are false.
FilterTruthy(filter) == filter # None /\ filter[2] # <<>>

\* The mutant of FirstMatch: only the first pattern of the list is tried.
FirstMatchOnlyHead(filter, key) == filter # <<>> /\ match(filter[1], key)

\* The inner loop: try the patterns in order and stop at the first match.
RECURSIVE FirstMatch(_, _)
FirstMatch(filter, key) ==
    IF filter = <<>> THEN FALSE
    ELSE IF match(filter[1], key) THEN TRUE
    ELSE FirstMatch(Tail(filter), key)

Filter(cfg, data, filter_name) ==
    LET filter == ConfigGet(cfg, filter_name)
    IN  IF FilterTruthy(filter)
        THEN [key \in DOMAIN data |->
                 IF FirstMatch(filter[2], key) THEN FILTERED ELSE data[key]]
        ELSE data

----------------------------------------------------------------------------
(* Configuration: app.debug and app.testing are the configuration's DEBUG *)
(* and TESTING entries.                                                   *)

AppDebug(cfg) == cfg["DEBUG"]
AppTesting(cfg) == cfg["TESTING"]

BOOL_NAMES == { "DEBUG", "TESTING", "PROPAGATE_EXCEPTIONS" }

\* Python's truth value of a configuration value: False, None, the empty
\* string, list or set are false.
Truthy(name, value) ==
    IF name \in BOOL_NAMES THEN value
    ELSE IF name = "EXCEPTIONAL_HTTP_CODES" THEN value # {}
    ELSE IF value = None THEN FALSE
    ELSE IF name \in FILTER_NAMES THEN value[2] # <<>>
    ELSE value[2] # ""

\* str(value) of a true configuration value.
StrOf(name, value) ==
    IF name \in BOOL_NAMES \/ name = "EXCEPTIONAL_HTTP_CODES" THEN Str(ToString(value))
    ELSE IF name \in FILTER_NAMES THEN Str(ToString(value[2]))
    ELSE value

\* The process environment.
OsEnviron == ("PATH" :> "/usr/bin")

\* Exceptional.__get_application_data
GetApplicationData(cfg) ==
    LET environment ==
            [ key \in { <<name>> : name \in DOMAIN cfg }
                  \cup { <<"os.", name>> : name \in DOMAIN OsEnviron } |->
                IF Len(key) = 1
                THEN IF Truthy(key[1], cfg[key[1]])
                     THEN StrOf(key[1], cfg[key[1]]) ELSE None
                ELSE Str(OsEnviron[key[2]]) ]
    IN  [ framework |-> "flask",
          env |-> Filter(cfg, environment, "EXCEPTIONAL_ENVIRONMENT_FILTER"),
          language |-> "python" ]

----------------------------------------------------------------------------
(* Exceptional.__get_exception_data *)

\* traceback.exception.split(': ', 1)[-1]: the text after the first ": ",
\* the whole text when there is none.  The text is a sequence of pieces in
\* which ": " is a piece of its own.
RECURSIVE AfterFirstSeparator(_, _)
AfterFirstSeparator(text, whole) ==
    IF text = <<>> THEN whole
    ELSE IF text[1] = ": " THEN Tail(text)
    ELSE AfterFirstSeparator(Tail(text), whole)

\* One backtrace line of a frame; the source line is stripped of its indent.
FormatFrame(frame) ==
    <<"File", frame.filename, frame.lineno, frame.function_name,
      frame.current_line.text>>

\* The mutant of InsertFrames: each line is appended.
RECURSIVE InsertFramesAtEnd(_, _)
InsertFramesAtEnd(frames, backtrace) ==
    IF frames = <<>> THEN backtrace
    ELSE InsertFramesAtEnd(Tail(frames), backtrace \o <<FormatFrame(frames[1])>>)

\* backtrace.insert(0, ...) for each frame in turn.
RECURSIVE InsertFrames(_, _)
InsertFrames(frames, backtrace) ==
    IF frames = <<>> THEN backtrace
    ELSE InsertFrames(Tail(frames), <<FormatFrame(frames[1])>> \o backtrace)

GetExceptionData(traceback) ==
    [ occurred_at |-> <<"utcnow", "Z">>,
      message |-> AfterFirstSeparator(traceback.exception, traceback.exception),
      backtrace |-> InsertFrames(traceback.frames, <<>>),
      exception_class |-> traceback.exception_type ]

----------------------------------------------------------------------------
(* Exceptional.__get_request_data *)

\* The truth value of a parsed JSON body: an empty mapping, an empty list
\* and 0 are false.
Falsy(value) ==
    value \in { None, Dict(<<>>), List(<<>>), PyInt(0) }

\* request.json or {}, and the handler of a failed parse.  request.json is
\* <<"none">> when no JSON is attempted (it is None), <<"invalid">> when the
\* parse raises, and the parsed value otherwise: a false one gives {}, any
\* other is the seed as it is, mapping or not.
SeedParameters(request) ==
    CASE request.json[1] = "none" -> Dict(<<>>)
      [] request.json[1] = "invalid" -> Dict((<<"INVALID_JSON">> :> request.data))
      [] OTHER -> IF Falsy(request.json) THEN Dict(<<>>) ELSE request.json

\* The mutant of OverlayForm: an entry already in the parameters is kept.
OverlayFormUnder(parameters, form) ==
    Update([ key \in DOMAIN form |->
               IF Len(form[key]) = 1 THEN form[key][1] ELSE List(form[key]) ],
           parameters)

\* The form fields laid over the parameters: one value as itself, several
\* as their list.
OverlayForm(parameters, form) ==
    Update(parameters,
           [ key \in DOMAIN form |->
               IF Len(form[key]) = 1 THEN form[key][1] ELSE List(form[key]) ])

\* The uploaded files laid over the parameters, by file name.
OverlayFiles(parameters, files) ==
    Update(parameters,
           [ key \in DOMAIN files |->
               IF Len(files[key]) = 1 THEN files[key][1].filename
               ELSE List([ i \in 1..Len(files[key]) |-> files[key][i].filename ]) ])

\* SimpleCookie's coded value: a value of legal characters as it is, any
\* other value in double quotes.
LegalCookieValues == { "v1", "v2" }
CodedValue(value) ==
    IF value[2] \in LegalCookieValues THEN value ELSE <<"str", "\"", value[2], "\"">>

\* cookie.output(header='', sep=';').strip(): the morsels key=coded value in
\* the order of their keys, so the text is a function of the mapping.
CookieOutput(cookies) ==
    <<"str", "morsels", [ key \in DOMAIN cookies |-> CodedValue(cookies[key]) ]>>

\* The mutant of RequestHeaders: the request's own headers, raw Cookie
\* header included.
RequestHeadersRaw(cfg, request) == request.headers

\* The headers that go into the report: with cookies, a mutable copy whose
\* Cookie header is regenerated from the filtered cookies.
RequestHeaders(cfg, request) ==
    IF request.cookies # <<>>
    THEN LET cookies == Filter(cfg, request.cookies, "EXCEPTIONAL_COOKIE_FILTER")
         IN  Update(request.headers, (<<"Cookie">> :> CookieOutput(cookies)))
    ELSE request.headers

\* request.endpoint.split('.', 1)[-1]: the endpoint is its dot-separated
\* segments; what follows the first dot, or the only segment.
Action(endpoint) ==
    IF endpoint = None THEN None
    ELSE IF Len(endpoint[2]) = 1 THEN endpoint ELSE Str(Tail(endpoint[2]))

\* What the statements that take the seed for a mapping raise when it is
\* none (a list, a number): parameters[key] = ... with a field name is a
\* TypeError; in __filter data.iteritems() is an AttributeError and
\* dict(data) a TypeError.  None when the seed is a mapping.
SeedMisuse(cfg, seed, request) ==
    IF seed[1] = "dict" THEN None
    ELSE IF request.form # <<>> \/ request.files # <<>> THEN Raise("TypeError")
    ELSE IF FilterTruthy(ConfigGet(cfg, "EXCEPTIONAL_PARAMETER_FILTER"))
    THEN Raise("AttributeError")
    ELSE Raise("TypeError")

GetRequestData(cfg, request, session) ==
    LET seed == SeedParameters(request)
        misuse == SeedMisuse(cfg, seed, request)
        parameters == OverlayFiles(OverlayForm(seed[2], request.form), request.files)
    IN  IF misuse # None THEN misuse
        ELSE Ok(
        [ session |-> Filter(cfg, session, "EXCEPTIONAL_SESSION_FILTER"),
          remote_ip |-> request.remote_addr,
          parameters |-> Filter(cfg, parameters, "EXCEPTIONAL_PARAMETER_FILTER"),
          action |-> Action(request.endpoint),
          url |-> request.url,
          request_method |-> request.method,
          controller |-> request.blueprint,
          headers |-> Filter(cfg, RequestHeaders(cfg, request),
                             "EXCEPTIONAL_HEADER_FILTER") ])

----------------------------------------------------------------------------
(* The application and the extension instances *)

\* Exceptional instances created.
NInst == 2
Inst == 1..NInst

\* Requests served.
NReq == 2
Req == 1..NReq

\* An attribute that was never assigned.
Unset == <<"unset">>

\* json.encoder.encode_basestring as the json module defines it.
ORIGINAL_ENCODER == <<"encode_basestring">>

\* No publish() call made, no report being serialized.
InitBuild ==
    /\ pub = <<>>
    /\ encode_basestring = ORIGINAL_ENCODER
    /\ bpc = [r \in Req |-> "idle"]
    /\ bsaved = [r \in Req |-> Unset]
    /\ bin = [r \in Req |-> Unset]
    /\ bout = [r \in Req |-> Unset]

\* The state before any init_app call and before any request.
InitIdle ==
    /\ InitBuild
    /\ url = [i \in Inst |-> Unset]
    /\ protocol_version = [i \in Inst |-> Unset]
    /\ extensions = <<>>
    /\ handle_exception = <<>>
    /\ handle_http_exception = <<>>
    /\ log = <<>>
    /\ inits = 0
    /\ pc = [r \in Req |-> "idle"]
    /\ req = [r \in Req |-> None]
    /\ exceptional_context = [r \in Req |-> None]
    /\ g = [r \in Req |-> Unset]
    /\ calls = [r \in Req |-> <<>>]
    /\ err = [r \in Req |-> None]
    /\ post = [r \in Req |-> <<>>]
    /\ handled = [r \in Req |-> <<>>]
    /\ result = [r \in Req |-> Unset]

----------------------------------------------------------------------------
(* Exceptional.init_app *)

EXCEPTIONAL_URL == "http://api.exceptional.io/api/errors"

PROTOCOL_VERSION == 5

\* set(xrange(400, 418))
DEFAULT_HTTP_CODES == 400..417

\* app.config.setdefault(name, value)
SetDefault(cfg, name, value) ==
    IF name \in DOMAIN cfg THEN cfg ELSE cfg @@ (name :> value)

ConfigDefaults(cfg) ==
    SetDefault(
     SetDefault(
      SetDefault(
       SetDefault(
        SetDefault(
         SetDefault(
          SetDefault(cfg, "EXCEPTIONAL_COOKIE_FILTER", None),
          "EXCEPTIONAL_ENVIRONMENT_FILTER", List(<< <<"SECRET_KEY">> >>)),
         "EXCEPTIONAL_HEADER_FILTER", None),
        "EXCEPTIONAL_PARAMETER_FILTER", None),
       "EXCEPTIONAL_SESSION_FILTER", None),
      "EXCEPTIONAL_HTTP_CODES", DEFAULT_HTTP_CODES),
     "EXCEPTIONAL_DEBUG_URL", None)

\* "%s?api_key=%s&protocol_version=%d"
CollectorUrl(cfg) ==
    <<"str", EXCEPTIONAL_URL, "?api_key=", cfg["EXCEPTIONAL_API_KEY"][2],
      "&protocol_version=", PROTOCOL_VERSION>>

\* The mutant of ResolveUrl: testing mode is looked at before debug mode.
ResolveUrlTestingFirst(cfg) ==
    IF AppTesting(cfg) THEN None
    ELSE IF AppDebug(cfg) THEN cfg["EXCEPTIONAL_DEBUG_URL"]
    ELSE CollectorUrl(cfg)

\* self.url, from the configuration with its defaults set.
ResolveUrl(cfg) ==
    IF AppDebug(cfg) THEN cfg["EXCEPTIONAL_DEBUG_URL"]
    ELSE IF AppTesting(cfg) THEN None
    ELSE CollectorUrl(cfg)

\* The mutant of AlreadyWired: the registry is not looked at.
AlreadyWiredNever(ext) == FALSE

\* "exceptional" in app.extensions
AlreadyWired(ext) == "exceptional" \in DOMAIN ext

\* The mutant of HasApiKey: a testing application needs no API key.
HasApiKeyOrTesting(cfg) == "EXCEPTIONAL_API_KEY" \in DOMAIN cfg \/ AppTesting(cfg)

\* "EXCEPTIONAL_API_KEY" in app.config
HasApiKey(cfg) == "EXCEPTIONAL_API_KEY" \in DOMAIN cfg

Warning(message, args) == [level |-> "warning", message |-> message, args |-> args]

\* Most init_app calls made.
MaxInit == 2

InitApp(self) ==
    /\ inits < MaxInit
    /\ inits' = inits + 1
    /\ IF HasApiKey(config)
       THEN /\ config' = ConfigDefaults(config)
            /\ protocol_version' = [protocol_version EXCEPT ![self] = PyInt(PROTOCOL_VERSION)]
            /\ url' = [url EXCEPT ![self] = ResolveUrl(ConfigDefaults(config))]
            /\ IF AlreadyWired(extensions)
               THEN /\ log' = Append(log,
                               Warning("Repeated Exceptional initialization attempt.", <<>>))
                    /\ UNCHANGED <<handle_exception, handle_http_exception, extensions>>
               ELSE /\ handle_exception' = <<self>> \o handle_exception
                    /\ handle_http_exception' = <<self>> \o handle_http_exception
                    /\ extensions' = ("exceptional" :> self) @@ extensions
                    /\ UNCHANGED log
       ELSE /\ log' = Append(log,
                        Warning("Missing 'EXCEPTIONAL_API_KEY' configuration.", <<>>))
            /\ UNCHANGED <<config, protocol_version, url, handle_exception,
                           handle_http_exception, extensions>>
    /\ UNCHANGED <<rvars, fvars, xvars, pvars, bvars>>

----------------------------------------------------------------------------
(* Exceptional.context *)

\* stack.top: the request context on top of the stack of the thread (or
\* greenlet) that serves request r, which is r's own.
StackTop(r) == r

\* The mutant of ContextHolder: one module-level holder for every request.
ContextHolderGlobal(top) == 1

\* The object that carries the exceptional_context attribute: the request
\* context itself.
ContextHolder(top) == top

\* The mutant of ContextUpdate: the keyword arguments are applied first.
ContextUpdateKwargsFirst(context, data, kwargs) ==
    LET c0 == IF context = None THEN <<>> ELSE context[2]
        c1 == IF kwargs # <<>> THEN Update(c0, kwargs) ELSE c0
        c2 == IF data # None THEN Update(c1, data[2]) ELSE c1
    IN  Dict(c2)

\* The exceptional_context attribute after context(data, **kwargs).
ContextUpdate(context, data, kwargs) ==
    LET c0 == IF context = None THEN <<>> ELSE context[2]
        c1 == IF data # None THEN Update(c0, data[2]) ELSE c0
        c2 == IF kwargs # <<>> THEN Update(c1, kwargs) ELSE c1
    IN  Dict(c2)

\* Most context() calls of one request.
MaxCalls == 2

Context(r, data, kwargs) ==
    /\ pc[r] = "active"
    /\ Len(calls[r]) < MaxCalls
    /\ exceptional_context' =
           [exceptional_context EXCEPT
               ![ContextHolder(StackTop(r))] =
                   ContextUpdate(exceptional_context[ContextHolder(StackTop(r))],
                                 data, kwargs)]
    /\ calls' = [calls EXCEPT ![r] = Append(@, <<data, kwargs>>)]
    /\ UNCHANGED <<config, avars, pc, req, g, err, post, handled, result, fvars, xvars,
                   pvars, bvars>>

----------------------------------------------------------------------------
(* Exceptional._post_data *)

\* json.dumps raises TypeError on a value it cannot serialize.
Serializable(context_data) ==
    context_data = None \/ \A k \in DOMAIN context_data[2] : context_data[2][k] # Obj

\* json.dumps(...).encode("utf-8"), and zlib's compress(ret_val, 1).
Dumps(report) == <<"bytes", "json", report>>
Compress(bytes, level) == <<"bytes", "deflate", level, bytes>>

\* The traceback of the exception being handled (tbtools).
CurrentTraceback(exception) ==
    [ exception_type |-> exception.type,
      exception |-> exception.text,
      frames |-> exception.frames ]

\* context.session
SessionInput == (<<"user">> :> Str("alice"))

\* What urlopen does: it returns ("ok"), or raises HTTPError (the collector
\* answered with a status the opener takes for an error), URLError (no
\* connection), BadStatusLine (a malformed status line) or an exception of
\* another class ("OtherError": socket.timeout while the response is read,
\* httplib.UnknownProtocol, ValueError for a URL of unknown type).
Net(kind, code) == [kind |-> kind, code |-> code]
Accepted == Net("ok", 200)
NetOutcomes ==
    { Accepted, Net("HTTPError", 304), Net("HTTPError", 400),
      Net("HTTPError", 503), Net("URLError", 0), Net("BadStatusLine", 0),
      Net("OtherError", 0) }

\* The request reached the collector (urlopen did not fail to connect).
Reached(net) == net.kind # "URLError"

\* The mutant of Swallowed: a malformed response is not caught.
SwallowedNever(kind) == FALSE

\* except BadStatusLine: pass
Swallowed(kind) == kind = "BadStatusLine"

\* The mutant of IsURLError: HTTPError is not taken for a URLError.
IsURLErrorOnly(kind) == kind = "URLError"

\* except URLError: urllib2's HTTPError is a subclass of URLError.
IsURLError(kind) == kind \in { "URLError", "HTTPError" }

\* except HTTPError, e: if e.code >= 400: raise
Reraised(net) == net.kind = "HTTPError" /\ net.code >= 400

UNABLE_TO_CONNECT ==
    "Unable to connect to %s. See http://status.exceptional.io for details. Error data:\n%s"

\* The delivery step: the POST and the handling of what urlopen raises.
\* ret is None when the step completes and the exception when one leaves it.
\* self_url is self.url and cfg the configuration of the app at hand.
DeliverTo(self_url, cfg, ret_val, net) ==
    LET request == [ url |-> self_url,
                     headers |-> IF AppDebug(cfg)
                                 THEN ("Content-Type" :> "application/json")
                                 ELSE ("Content-Type" :> "application/json")
                                      @@ ("Content-Encoding" :> "deflate"),
                     data |-> IF AppDebug(cfg) THEN ret_val
                              ELSE Compress(ret_val, 1) ]
        posts == IF Reached(net) THEN <<request>> ELSE <<>>
        inner == IF net.kind = "ok" THEN None
                 ELSE IF net.kind = "HTTPError"
                      THEN IF Reraised(net) THEN Raise(net) ELSE None
                      ELSE Raise(net)
    IN  IF inner = None
        THEN [ret |-> None, logs |-> <<>>, posts |-> posts]
        ELSE IF IsURLError(net.kind)
        THEN [ret |-> None,
              logs |-> <<Warning(UNABLE_TO_CONNECT, <<self_url, ret_val>>)>>,
              posts |-> posts]
        ELSE IF Swallowed(net.kind)
        THEN [ret |-> None, logs |-> <<>>, posts |-> posts]
        ELSE [ret |-> inner, logs |-> <<>>, posts |-> posts]

\* The delivery step of an instance of the application.
Deliver(self, ret_val, net) == DeliverTo(url[self], config, ret_val, net)

\* No delivery was attempted.
NoDelivery == [ret |-> Unset, logs |-> <<>>, posts |-> <<>>]

\* The record of one _post_data call: what it returned or raised (ret), the
\* report it built (None before one is built), the bytes it put in
\* g.exceptional (Unset when it did not), the records it logged, the POSTs
\* that reached a server, and what the delivery step did (None when the call
\* did not get there).
Call(self, net, ret, report, stored, delivery) ==
    [ self |-> self, net |-> IF delivery.ret = Unset THEN Net("none", 0) ELSE net,
      ret |-> ret, report |-> report, stored |-> stored,
      logs |-> delivery.logs,
      posts |-> delivery.posts,
      delivery |-> IF delivery.ret = Unset THEN None ELSE <<"delivery", delivery.ret>> ]

\* The mutant of RequestContextOf: given an application, the request
\* context on top of the stack is used when there is one.
RequestContextOrTop(context, top) ==
    IF context # None /\ context[1] = "ctx" THEN context
    ELSE IF top # 0 THEN <<"ctx", top>> ELSE None

\* `context` after the first statement: a request context stays, a Flask
\* application (and a false value) leaves None.
RequestContextOf(context, top) ==
    IF context # None /\ context[1] = "ctx" THEN context ELSE None

\* self._post_data(context, traceback), called in the thread whose stack top
\* is the request context `top` (0: none) while `exception` is handled.
\* `context` is <<"ctx", c>> for the request context c, <<"app">> for a Flask
\* application, or None; `traceback` is <<"traceback", t>> or None.
\* self_url and self_version are the instance's url and __protocol_version
\* attributes (Unset when init_app never assigned them), cfg is app.config.
PostDataOf(self, self_url, self_version, cfg, top, context, traceback, exception, net) ==
    IF context = None /\ top = 0
    THEN Call(self, net, Raise("AttributeError"), None, Unset, NoDelivery)
    ELSE IF self_version = Unset
    THEN Call(self, net, Raise("AttributeError"), None, Unset, NoDelivery)
    ELSE
    LET ctx == RequestContextOf(context, top)
        request_data == IF ctx # None
                        THEN GetRequestData(cfg, req[ctx[2]], SessionInput)
                        ELSE Ok(None)
        report ==
            [ application_environment |-> GetApplicationData(cfg),
              client |-> [ name |-> "flask-exceptional",
                           protocol_version |-> self_version ],
              request |-> IF ctx # None THEN Dict(request_data[2]) ELSE None,
              exception |-> GetExceptionData(
                                IF traceback # None THEN traceback[2]
                                ELSE CurrentTraceback(exception)),
              context |-> IF ctx # None THEN exceptional_context[ContextHolder(ctx[2])]
                          ELSE None ]
    IN  IF ~IsOk(request_data)
        THEN Call(self, net, request_data, None, Unset, NoDelivery)
        ELSE IF ~Serializable(report.context)
        THEN Call(self, net, Raise("TypeError"), None, Unset, NoDelivery)
        ELSE
        LET ret_val == Dumps(report)
            stored == IF ctx # None /\ AppTesting(cfg) THEN ret_val ELSE Unset
        IN  IF self_url = Unset
            THEN Call(self, net, Raise("AttributeError"), Dict(report), stored, NoDelivery)
            ELSE IF self_url = None \/ self_url = Str("")
            THEN Call(self, net, Ok(ret_val), Dict(report), stored, NoDelivery)
            ELSE LET delivery == DeliverTo(self_url, cfg, ret_val, net)
                 IN  Call(self, net,
                          IF delivery.ret = None THEN Ok(ret_val) ELSE delivery.ret,
                          Dict(report), stored, delivery)

\* _post_data of an instance of the application.
PostData(self, top, context, traceback, exception, net) ==
    PostDataOf(self, url[self], protocol_version[self], config, top, context,
               traceback, exception, net)

----------------------------------------------------------------------------
(* Requests *)

\* The headers a client sends: the Cookie header carries the raw cookies.
HeadersFor(cookies) ==
    LET base == (<<"Host">> :> Str("example.com")) @@ (<<"Accept">> :> Str("*/*"))
    IN  IF cookies = <<>> THEN base
        ELSE base @@ (<<"Cookie">> :> <<"str", "raw", cookies>>)

RequestFor(json, form, files, cookies) ==
    [ json |-> json,
      data |-> Str("{body}"),
      form |-> form,
      files |-> files,
      cookies |-> cookies,
      headers |-> HeadersFor(cookies),
      remote_addr |-> Str("127.0.0.1"),
      endpoint |-> Str(<<"admin", "error">>),
      url |-> Str("http://localhost/error"),
      method |-> Str("POST"),
      blueprint |-> Str("admin") ]

----------------------------------------------------------------------------
(* The wrapped handlers *)

\* The errors an application raises: 1 / 0 in a view, and abort(code).
Frame(function_name, lineno, text) ==
    [ filename |-> "app.py", lineno |-> lineno, function_name |-> function_name,
      current_line |-> [indent |-> 4, text |-> text] ]

ZeroDivision ==
    [ type |-> "ZeroDivisionError",
      text |-> <<"ZeroDivisionError", ": ", "integer division or modulo by zero">>,
      code |-> 0,
      frames |-> <<Frame("dispatch_request", 10, "return view()"),
                   Frame("error", 45, "1 / 0")>> ]

HttpError(code) ==
    [ type |-> "HTTPException",
      text |-> <<"HTTPException", ": ", ToString(code), ": ", "Error">>,
      code |-> code,
      frames |-> <<Frame("http", 51, "abort(code)")>> ]

\* The status codes the application aborts with.
AbortCodes == { 404, 500 }

\* Flask's own handle_exception / handle_http_exception: what it returns is
\* decided by the exception it is given.
OriginalHandler(exception) == Ok(<<"response", exception.type, exception.code>>)

\* exception.code in context.app.config["EXCEPTIONAL_HTTP_CODES"]
Tracked(exception) == exception.code \in config["EXCEPTIONAL_HTTP_CODES"]

\* The handler app.handle_exception (http = FALSE) or app.handle_http_exception
\* (http = TRUE) called with `exception` while request r is served: each
\* wrapper in `chain` posts the error data and then calls the handler it
\* wrapped, the innermost being Flask's own.  posts: the _post_data calls
\* made; handled: the exceptions Flask's own handler was given; result:
\* what the call returned or raised.
RECURSIVE CallHandler(_, _, _, _, _)
CallHandler(chain, r, exception, net, http) ==
    IF chain = <<>>
    THEN [posts |-> <<>>, handled |-> <<exception>>, result |-> OriginalHandler(exception)]
    ELSE IF http /\ ~Tracked(exception)
    THEN CallHandler(Tail(chain), r, exception, net, http)
    ELSE LET call == PostData(chain[1], StackTop(r), <<"ctx", StackTop(r)>>, None,
                              exception, net)
             rest == CallHandler(Tail(chain), r, exception, net, http)
         IN  IF IsOk(call.ret)
             THEN [posts |-> <<call>> \o rest.posts, handled |-> rest.handled,
                   result |-> rest.result]
             ELSE [posts |-> <<call>>, handled |-> <<>>, result |-> call.ret]

\* The records the calls logged, in order.
RECURSIVE LogsOf(_)
LogsOf(posts) == IF posts = <<>> THEN <<>> ELSE posts[1].logs \o LogsOf(Tail(posts))

\* g.exceptional after the calls: the bytes the last storing call stored.
RECURSIVE StoredOf(_, _)
StoredOf(posts, old) ==
    IF posts = <<>> THEN old
    ELSE StoredOf(Tail(posts), IF posts[1].stored = Unset THEN old ELSE posts[1].stored)

\* The requests of the application's clients.
GetRequest == RequestFor(<<"none">>, <<>>, <<>>, <<>>)
RequestInputs ==
    { GetRequest,
      RequestFor(<<"none">>, (<<"foo">> :> <<Str("bar")>>), <<>>,
                 (<<"sid">> :> Str("v1"))) }

\* A request arrives: its request context is pushed.
BeginRequest(r, request) ==
    /\ pc[r] = "idle"
    /\ pc' = [pc EXCEPT ![r] = "active"]
    /\ req' = [req EXCEPT ![r] = request]
    /\ UNCHANGED <<config, avars, exceptional_context, g, calls, err, post, handled,
                   result, fvars, xvars, pvars, bvars>>

\* The handler ran for request r: its effects on the application's state.
Handled(r, exception, out) ==
    /\ pc' = [pc EXCEPT ![r] = "done"]
    /\ err' = [err EXCEPT ![r] = exception]
    /\ post' = [post EXCEPT ![r] = out.posts]
    /\ handled' = [handled EXCEPT ![r] = out.handled]
    /\ result' = [result EXCEPT ![r] = out.result]
    /\ g' = [g EXCEPT ![StackTop(r)] = StoredOf(out.posts, @)]
    /\ log' = log \o LogsOf(out.posts)
    /\ UNCHANGED <<config, url, protocol_version, extensions, handle_exception,
                   handle_http_exception, inits, req, exceptional_context, calls,
                   fvars, xvars, pvars, bvars>>

\* The view of request r raises: Flask calls app.handle_exception.
HandleException(r, net) ==
    /\ pc[r] = "active"
    /\ Handled(r, ZeroDivision, CallHandler(handle_exception, r, ZeroDivision, net, FALSE))

\* The view of request r aborts: Flask calls app.handle_http_exception.
HandleHttpException(r, code, net) ==
    /\ pc[r] = "active"
    /\ Handled(r, HttpError(code),
               CallHandler(handle_http_exception, r, HttpError(code), net, TRUE))

----------------------------------------------------------------------------
(* Exceptional.publish *)

\* Longest trace published.
MaxFrames == 2

\* The frames of the traces captured outside request handling.
FrameInputs == { Frame("job", 7, "run()"), Frame("run", 12, "raise ValueError") }

\* The Traceback instances publish() is given.
TraceInputs ==
    { [ exception_type |-> "ValueError",
        exception |-> <<"ValueError", ": ", "bad value">>,
        frames |-> frames ] :
        frames \in UNION { [1..n -> FrameInputs] : n \in 0..MaxFrames } }

\* What urlopen does for a published report.
PublishNetOutcomes == { Net("ok", 200), Net("URLError", 0) }

\* Most publish() calls made.
MaxPublish == 1

\* publish(config, traceback) with the application's Config object, called
\* in a thread whose stack top is `top` (0: no request context).  The Flask
\* application and the Exceptional instance are new: init_app sets the
\* defaults in the Config object it shares with the application, wires the
\* new application and logs to the new application's logger; self is 0, an
\* instance that is none of the application's.
Publish(top, traceback, net) ==
    /\ Len(pub) < MaxPublish
    /\ top # 0 => pc[top] = "active"
    /\ LET keyed == HasApiKey(config)
           cfg == IF keyed THEN ConfigDefaults(config) ELSE config
           self_url == IF keyed THEN ResolveUrl(cfg) ELSE Unset
           self_version == IF keyed THEN PyInt(PROTOCOL_VERSION) ELSE Unset
           init_logs == IF keyed THEN <<>>
                        ELSE <<Warning("Missing 'EXCEPTIONAL_API_KEY' configuration.", <<>>)>>
           call == PostDataOf(0, self_url, self_version, cfg, top, <<"app">>,
                              <<"traceback", traceback>>, None, net)
       IN  /\ config' = cfg
           /\ pub' = Append(pub, [ top |-> top, traceback |-> traceback,
                                   url |-> self_url, call |-> call,
                                   logs |-> init_logs \o call.logs ])
           /\ g' = IF top = 0 \/ call.stored = Unset THEN g
                   ELSE [g EXCEPT ![top] = call.stored]
    /\ UNCHANGED <<avars, pc, req, exceptional_context, calls, err, post, handled,
                   result, fvars, xvars, bvars>>

----------------------------------------------------------------------------
(* The application: configured, initialized, serving requests. *)

ConfigInputs ==
    { base @@ key @@ debug_url @@ codes :
        base \in { ("DEBUG" :> d) @@ ("TESTING" :> t) @@ ("SECRET_KEY" :> Str("s3cret")) :
                     d \in BOOLEAN, t \in BOOLEAN },
        key \in { <<>>, ("EXCEPTIONAL_API_KEY" :> Str("key")) },
        debug_url \in { <<>>, ("EXCEPTIONAL_DEBUG_URL" :> Str("http://debug/post")) },
        codes \in { <<>>, ("EXCEPTIONAL_HTTP_CODES" :> {500}) } }

\* The data and the keyword arguments context() is called with.
ContextData == { None, Dict(("foo" :> Str("bar")) @@ ("baz" :> Str("qux"))) }
ContextKwargs == { <<>>, ("foo" :> Str("kw")), ("obj" :> Obj) }
FooBar == Dict(("foo" :> Str("bar")))
ObjKwargs == ("obj" :> Obj)
BazKwargs == ("baz" :> Str("kw"))

\* The application after Flask(__name__): nothing initialized, no request.
Init ==
    /\ config \in ConfigInputs
    /\ InitIdle
    /\ fpc = "idle" /\ fname = "" /\ fdata = <<>> /\ fresult = <<>>
    /\ xpc = <<>> /\ xreq = <<>> /\ xout = <<>> /\ xseed = <<>>

\* One error occurrence at a time: init_app calls, and a request that
\* contributes context and fails, with every outcome of the delivery.
Next ==
    \/ \E self \in Inst : InitApp(self)
    \/ \E request \in RequestInputs : BeginRequest(1, request)
    \/ Context(1, FooBar, <<>>)
    \/ Context(1, None, ObjKwargs)
    \/ \E net \in NetOutcomes : HandleException(1, net)
    \/ \E code \in AbortCodes, net \in NetOutcomes : HandleHttpException(1, code, net)

Spec == Init /\ [][Next]_vars

----------------------------------------------------------------------------
(* The context store: a testing application wired by Exceptional(app),    *)
(* the state test_14_context starts from.                                 *)

TestingConfig ==
    ConfigDefaults(("DEBUG" :> FALSE) @@ ("TESTING" :> TRUE)
                   @@ ("SECRET_KEY" :> Str("s3cret"))
                   @@ ("EXCEPTIONAL_API_KEY" :> Str("key")))

InitWired ==
    /\ config = TestingConfig
    /\ url = [i \in Inst |-> IF i = 1 THEN ResolveUrl(TestingConfig) ELSE Unset]
    /\ protocol_version = [i \in Inst |-> IF i = 1 THEN PyInt(PROTOCOL_VERSION) ELSE Unset]
    /\ extensions = ("exceptional" :> 1)
    /\ handle_exception = <<1>>
    /\ handle_http_exception = <<1>>
    /\ log = <<>>
    /\ inits = 1
    /\ pc = [r \in Req |-> "idle"]
    /\ req = [r \in Req |-> None]
    /\ exceptional_context = [r \in Req |-> None]
    /\ g = [r \in Req |-> Unset]
    /\ calls = [r \in Req |-> <<>>]
    /\ err = [r \in Req |-> None]
    /\ post = [r \in Req |-> <<>>]
    /\ handled = [r \in Req |-> <<>>]
    /\ result = [r \in Req |-> Unset]
    /\ InitBuild
    /\ fpc = "idle" /\ fname = "" /\ fdata = <<>> /\ fresult = <<>>
    /\ xpc = <<>> /\ xreq = <<>> /\ xout = <<>> /\ xseed = <<>>

\* Requests served concurrently, each contributing context or not.
NextContext ==
    \/ \E r \in Req : BeginRequest(r, GetRequest)
    \/ \E r \in Req : Context(r, FooBar, <<>>)
    \/ \E r \in Req : Context(r, None, BazKwargs)
    \/ \E r \in Req : HandleException(r, Accepted)

SpecContext == InitWired /\ [][NextContext]_vars

\* One request, with every combination of data and keyword arguments.
NextMerge ==
    \/ \E request \in RequestInputs : BeginRequest(1, request)
    \/ \E data \in ContextData, kwargs \in ContextKwargs : Context(1, data, kwargs)
    \/ HandleException(1, Accepted)

SpecMerge == InitWired /\ [][NextMerge]_vars

\* The configurations publish() is given.
PublishConfigInputs == { cfg \in ConfigInputs : "EXCEPTIONAL_HTTP_CODES" \notin DOMAIN cfg }

InitPublish ==
    /\ config \in PublishConfigInputs
    /\ InitIdle
    /\ fpc = "idle" /\ fname = "" /\ fdata = <<>> /\ fresult = <<>>
    /\ xpc = <<>> /\ xreq = <<>> /\ xout = <<>> /\ xseed = <<>>

\* Reports published from background jobs and from inside a request that
\* contributed context, by an application that calls init_app or not.
NextPublish ==
    \/ InitApp(1)
    \/ BeginRequest(1, GetRequest)
    \/ Context(1, FooBar, <<>>)
    \/ \E top \in {0, 1}, traceback \in TraceInputs, net \in PublishNetOutcomes :
          Publish(top, traceback, net)

SpecPublish == InitPublish /\ [][NextPublish]_vars

----------------------------------------------------------------------------
(* The filter harness: __filter applied to bounded inputs. *)

\* Longest filter list tried.
MaxRules == 2

\* Most entries of an input mapping.
MaxEntries == 2

FilterKeys ==
    { <<"a">>, <<"b">>, <<"a", "a">>, <<"a", "b">>, <<"b", "a">>, <<"a", "b", "a">> }

FilterPatterns ==
    { <<>>, <<"a">>, <<"b">>, <<"a", "b">>, <<".">>, <<".", "b">>,
      <<"a", "*", "b">>, <<".", "*", "a">> }

FilterValues == { Str("v"), FILTERED }

FilterLists == UNION { [1..n -> FilterPatterns] : n \in 0..MaxRules }

FilterInputs ==
    UNION { [ks -> FilterValues] :
              ks \in { s \in SUBSET FilterKeys : Cardinality(s) <= MaxEntries } }

InitFilter ==
    /\ fpc = "call"
    /\ fname \in FILTER_NAMES
    /\ fdata \in FilterInputs
    /\ fresult = <<>>
    /\ \E setting \in {None} \cup { List(l) : l \in FilterLists } :
          \/ config = (fname :> setting)
          \/ setting = None /\ config = ("EXCEPTIONAL_API_KEY" :> Str("key"))
    /\ xpc = <<>> /\ xreq = <<>> /\ xout = <<>> /\ xseed = <<>>
    /\ InitIdle

ApplyFilter ==
    /\ fpc = "call"
    /\ fresult' = Filter(config, fdata, fname)
    /\ fpc' = "done"
    /\ UNCHANGED <<config, fname, fdata, xvars, avars, rvars, pvars, bvars>>

NextFilter == ApplyFilter

SpecFilter == InitFilter /\ [][NextFilter]_vars

----------------------------------------------------------------------------
(* The extractor harness: __get_request_data applied to two requests that *)
(* differ in the values of their cookies only.                            *)

\* Most cookies of a request.
MaxCookies == 2

CookieKeys == { <<"sid">>, <<"lang">>, <<"sid", "2">> }
CookieValues == { Str("v1"), Str("v2"), Str("a b") }

CookieInputs ==
    UNION { [ks -> CookieValues] :
              ks \in { c \in SUBSET CookieKeys : Cardinality(c) <= MaxCookies } }

JsonInputs ==
    { <<"none">>, <<"invalid">>, <<"dict", (<<"foo">> :> Dict((<<"bar">> :> Str("baz"))))>> }

FormInputs ==
    { <<>>, (<<"foo">> :> <<Str("bar")>>), (<<"baz">> :> <<Str("q1"), Str("q2")>>) }

FileInputs ==
    { <<>>, (<<"file">> :> <<[filename |-> Str("README"), content |-> Str("bytes")]>>) }

CookieFilterInputs ==
    { None, List(<<>>), List(<< <<"sid">> >>), List(<< <<"lang">>, <<"sid", "2">> >>) }

HeaderFilterInputs == { None, List(<< <<"Host">> >>), List(<< <<"C", ".", "*">>, <<"Cookie">> >>) }

InitExtract ==
    /\ \E cf \in CookieFilterInputs, hf \in HeaderFilterInputs :
          config = ("EXCEPTIONAL_COOKIE_FILTER" :> cf)
                   @@ ("EXCEPTIONAL_HEADER_FILTER" :> hf)
                   @@ ("EXCEPTIONAL_PARAMETER_FILTER" :> List(<< <<"baz">> >>))
    /\ \E json \in JsonInputs, form \in FormInputs, files \in FileInputs,
          c1 \in CookieInputs :
          \E c2 \in [DOMAIN c1 -> CookieValues] :
          xreq = <<RequestFor(json, form, files, c1), RequestFor(json, form, files, c2)>>
    /\ xpc = <<"call", "call">>
    /\ xout = <<None, None>>
    /\ xseed = <<None, None>>
    /\ fpc = "idle" /\ fname = "" /\ fdata = <<>> /\ fresult = <<>>
    /\ InitIdle

Extract(i) ==
    /\ xpc[i] = "call"
    /\ xseed' = [xseed EXCEPT ![i] = SeedParameters(xreq[i])]
    /\ xout' = [xout EXCEPT ![i] = GetRequestData(config, xreq[i], SessionInput)]
    /\ xpc' = [xpc EXCEPT ![i] = "done"]
    /\ UNCHANGED <<config, xreq, fvars, avars, rvars, pvars, bvars>>

NextExtract == \E i \in 1..2 : Extract(i)

SpecExtract == InitExtract /\ [][NextExtract]_vars

----------------------------------------------------------------------------
(* The parameters: __get_request_data applied to one request, over the     *)
(* bodies, form fields and uploaded files a client can send.               *)

ParamJsonInputs ==
    { <<"none">>, <<"invalid">>,
      Dict((<<"foo">> :> Dict((<<"bar">> :> Str("baz"))))), Dict(<<>>),
      List(<<PyInt(1), PyInt(2)>>), List(<<>>) }

ParamFormInputs ==
    { <<>>, (<<"foo">> :> <<Str("bar")>>), (<<"baz">> :> <<Str("q1"), Str("q2")>>),
      (<<"foo">> :> <<Str("bar")>>) @@ (<<"baz">> :> <<Str("qux")>>) }

ParamFileInputs ==
    { <<>>, (<<"file">> :> <<[filename |-> Str("README"), content |-> Str("bytes")]>>),
      (<<"foo">> :> <<[filename |-> Str("a.txt"), content |-> Str("a")],
                      [filename |-> Str("b.txt"), content |-> Str("b")]>>) }

ParamFilterInputs == { None, List(<< <<"baz">> >>) }

InitParameters ==
    /\ \E pf \in ParamFilterInputs : config = ("EXCEPTIONAL_PARAMETER_FILTER" :> pf)
    /\ \E json \in ParamJsonInputs, form \in ParamFormInputs, files \in ParamFileInputs :
          xreq = <<RequestFor(json, form, files, <<>>)>>
    /\ xpc = <<"call">>
    /\ xout = <<None>>
    /\ xseed = <<None>>
    /\ fpc = "idle" /\ fname = "" /\ fdata = <<>> /\ fresult = <<>>
    /\ InitIdle

NextParameters == Extract(1)

SpecParameters == InitParameters /\ [][NextParameters]_vars

----------------------------------------------------------------------------
(* UTF-8, as str.decode("utf-8", "replace") and unicode.encode("utf-8")    *)
(* compute it.  A byte string is a sequence of bytes (0..255), a unicode   *)
(* string a sequence of code points.                                       *)

REPLACEMENT == 65533

IsContinuation(b) == b \in 128..191

\* The length of the sequence a byte starts; 0 for a byte that starts none.
CodeLength(b) ==
    IF b < 128 THEN 1
    ELSE IF b \in 194..223 THEN 2
    ELSE IF b \in 224..239 THEN 3
    ELSE IF b \in 240..244 THEN 4
    ELSE 0

\* The number of continuation bytes at the head of a byte string, up to max.
RECURSIVE Continuations(_, _)
Continuations(bytes, max) ==
    IF max = 0 \/ bytes = <<>> \/ ~IsContinuation(bytes[1]) THEN 0
    ELSE 1 + Continuations(Tail(bytes), max - 1)

\* The bytes of a sequence from the i-th on.
Drop(seq, i) == SubSeq(seq, i + 1, Len(seq))

\* The first sequence of a non-empty byte string: its code point, the
\* bytes it takes and whether it is well formed.  A sequence cut short or
\* broken by a byte that continues nothing is an error that takes the
\* start byte and the continuation bytes that follow it.
Utf8Step(bytes) ==
    LET b == bytes[1]
        n == CodeLength(b)
        k == Continuations(Tail(bytes), n - 1)
        c(i) == bytes[i + 1] - 128
        inrange == CASE n = 3 -> ~(b = 224 /\ bytes[2] < 160)
                     [] n = 4 -> ~(b = 240 /\ bytes[2] < 144) /\ ~(b = 244 /\ bytes[2] > 143)
                     [] OTHER -> TRUE
    IN  IF n = 1 THEN [cp |-> b, used |-> 1, ok |-> TRUE]
        ELSE IF n = 0 THEN [cp |-> REPLACEMENT, used |-> 1, ok |-> FALSE]
        ELSE IF k < n - 1 THEN [cp |-> REPLACEMENT, used |-> 1 + k, ok |-> FALSE]
        ELSE IF ~inrange THEN [cp |-> REPLACEMENT, used |-> n - 1, ok |-> FALSE]
        ELSE [cp |-> CASE n = 2 -> (b - 192) * 64 + c(1)
                       [] n = 3 -> (b - 224) * 4096 + c(1) * 64 + c(2)
                       [] n = 4 -> (b - 240) * 262144 + c(1) * 4096 + c(2) * 64 + c(3),
              used |-> n, ok |-> TRUE]

\* value.decode("utf-8", "replace")
RECURSIVE DecodeReplace(_)
DecodeReplace(bytes) ==
    IF bytes = <<>> THEN <<>>
    ELSE LET step == Utf8Step(bytes)
         IN  <<step.cp>> \o DecodeReplace(Drop(bytes, step.used))

\* Whether a byte string is well-formed UTF-8 (a strict decode succeeds).
RECURSIVE WellFormed(_)
WellFormed(bytes) ==
    \/ bytes = <<>>
    \/ LET step == Utf8Step(bytes)
       IN  step.ok /\ WellFormed(Drop(bytes, step.used))

\* unicode.encode("utf-8")
RECURSIVE EncodeUtf8(_)
EncodeUtf8(text) ==
    IF text = <<>> THEN <<>>
    ELSE LET cp == text[1]
         IN  (IF cp < 128 THEN <<cp>>
              ELSE IF cp < 2048 THEN <<192 + (cp \div 64), 128 + (cp % 64)>>
              ELSE IF cp < 65536
              THEN <<224 + (cp \div 4096), 128 + ((cp \div 64) % 64), 128 + (cp % 64)>>
              ELSE <<240 + (cp \div 262144), 128 + ((cp \div 4096) % 64),
                     128 + ((cp \div 64) % 64), 128 + (cp % 64)>>)
             \o EncodeUtf8(Tail(text))

----------------------------------------------------------------------------
(* json.dumps(..., ensure_ascii=False).encode("utf-8") of a byte string    *)
(* value, and json.loads of the result                                     *)

QUOTE == 34
BACKSLASH == 92

\* json.encoder.HAS_UTF8.search(value) is not None
HAS_UTF8(value) == \E i \in 1..Len(value) : value[i] >= 128

\* json.encoder.ESCAPE.sub(replace, value) with ESCAPE_DCT.
RECURSIVE Escape(_)
Escape(text) ==
    IF text = <<>> THEN <<>>
    ELSE (CASE text[1] = QUOTE -> <<BACKSLASH, QUOTE>>
            [] text[1] = BACKSLASH -> <<BACKSLASH, BACKSLASH>>
            [] text[1] = 10 -> <<BACKSLASH, 110>>
            [] OTHER -> <<text[1]>>)
         \o Escape(Tail(text))

\* The encoders json.encoder.encode_basestring can be bound to: the json
\* module's own and the _encode_basestring closure of a _post_data call.
LenientEncoder(t) == <<"_encode_basestring", t>>

\* _encode_basestring(value): a str with bytes of 0x80 and above is decoded
\* with "replace"; the result is a unicode string in double quotes.
EncodeLenient(value) ==
    LET text == IF HAS_UTF8(value) THEN DecodeReplace(value) ELSE value
    IN  Ok(EncodeUtf8(<<QUOTE>> \o Escape(text) \o <<QUOTE>>))

\* The json module's encode_basestring leaves a str as it is: the bytes of
\* 0x80 and above reach the implicit ASCII decoding of the join with the
\* unicode parts and of .encode("utf-8"), which raises.
EncodeOriginal(value) ==
    IF HAS_UTF8(value) THEN Raise("UnicodeDecodeError")
    ELSE Ok(<<QUOTE>> \o Escape(value) \o <<QUOTE>>)

\* json.dumps(...).encode("utf-8") under the encoder that is installed.
DumpsWith(encoder, value) ==
    IF encoder = ORIGINAL_ENCODER THEN EncodeOriginal(value) ELSE EncodeLenient(value)

\* The text of a JSON string body: Raise when a quote is not escaped or an
\* escape is cut short or unknown.
RECURSIVE Unescape(_)
Unescape(text) ==
    IF text = <<>> THEN Ok(<<>>)
    ELSE IF text[1] = QUOTE THEN Raise("ValueError")
    ELSE IF text[1] = BACKSLASH
    THEN IF Len(text) < 2 \/ text[2] \notin { QUOTE, BACKSLASH, 110 }
         THEN Raise("ValueError")
         ELSE LET rest == Unescape(Drop(text, 2))
              IN  IF IsOk(rest)
                  THEN Ok(<<IF text[2] = 110 THEN 10 ELSE text[2]>> \o rest[2])
                  ELSE rest
    ELSE LET rest == Unescape(Tail(text))
         IN  IF IsOk(rest) THEN Ok(<<text[1]>> \o rest[2]) ELSE rest

\* json.loads(data) of a document that is one string.
Loads(data) ==
    IF ~WellFormed(data) THEN Raise("UnicodeDecodeError")
    ELSE LET text == DecodeReplace(data)
         IN  IF Len(text) < 2 \/ text[1] # QUOTE \/ text[Len(text)] # QUOTE
             THEN Raise("ValueError")
             ELSE Unescape(SubSeq(text, 2, Len(text) - 1))

----------------------------------------------------------------------------
(* The serialization of _post_data, statement by statement, in threads     *)
(* that build their reports at the same time.                              *)

\* Longest byte string serialized.
MaxBytes == 2

\* "a", a double quote, the two bytes of U+00E9, and 0xF0.
ByteAlphabet == { 97, 34, 195, 169, 240 }

ByteInputs == UNION { [1..n -> ByteAlphabet] : n \in 0..MaxBytes }

\* The values in the report a thread builds: any in the first thread, a
\* plain one or the invalid one of test_11_utf8_decode in the others.
BuildInputs(t) == IF t = 1 THEN ByteInputs ELSE { <<97>>, <<240>> }

\* _post_data gets to the serialization of a report with a value.
BeginBuild(t, value) ==
    /\ bpc[t] = "idle"
    /\ bin' = [bin EXCEPT ![t] = value]
    /\ bpc' = [bpc EXCEPT ![t] = "save"]
    /\ UNCHANGED <<encode_basestring, bsaved, bout>>
    /\ UNCHANGED <<config, avars, rvars, fvars, xvars, pvars>>

\* encode_basestring = json.encoder.encode_basestring
SaveEncoder(t) ==
    /\ bpc[t] = "save"
    /\ bsaved' = [bsaved EXCEPT ![t] = encode_basestring]
    /\ bpc' = [bpc EXCEPT ![t] = "install"]
    /\ UNCHANGED <<encode_basestring, bin, bout>>
    /\ UNCHANGED <<config, avars, rvars, fvars, xvars, pvars>>

\* json.encoder.encode_basestring = _encode_basestring
InstallEncoder(t) ==
    /\ bpc[t] = "install"
    /\ encode_basestring' = LenientEncoder(t)
    /\ bpc' = [bpc EXCEPT ![t] = "dumps"]
    /\ UNCHANGED <<bsaved, bin, bout>>
    /\ UNCHANGED <<config, avars, rvars, fvars, xvars, pvars>>

\* ret_val = json.dumps(...).encode("utf-8"): it returns or raises.
DumpsReport(t) ==
    /\ bpc[t] = "dumps"
    /\ bout' = [bout EXCEPT ![t] = DumpsWith(encode_basestring, bin[t])]
    /\ bpc' = [bpc EXCEPT ![t] = "finally"]
    /\ UNCHANGED <<encode_basestring, bsaved, bin>>
    /\ UNCHANGED <<config, avars, rvars, fvars, xvars, pvars>>

\* finally: json.encoder.encode_basestring = encode_basestring
RestoreEncoder(t) ==
    /\ bpc[t] = "finally"
    /\ encode_basestring' = bsaved[t]
    /\ bpc' = [bpc EXCEPT ![t] = "done"]
    /\ UNCHANGED <<bsaved, bin, bout>>
    /\ UNCHANGED <<config, avars, rvars, fvars, xvars, pvars>>

InitEncoder ==
    /\ config = TestingConfig
    /\ InitIdle
    /\ fpc = "idle" /\ fname = "" /\ fdata = <<>> /\ fresult = <<>>
    /\ xpc = <<>> /\ xreq = <<>> /\ xout = <<>> /\ xseed = <<>>

NextEncoder ==
    \/ \E t \in Req : \E value \in BuildInputs(t) : BeginBuild(t, value)
    \/ \E t \in Req : SaveEncoder(t)
    \/ \E t \in Req : InstallEncoder(t)
    \/ \E t \in Req : DumpsReport(t)
    \/ \E t \in Req : RestoreEncoder(t)

SpecEncoder == InitEncoder /\ [][NextEncoder]_vars

----------------------------------------------------------------------------
(* C1 *)

\* A pattern matches a key from its start when the pattern's symbols can be
\* laid over a prefix of the key: s[i] is the number of key symbols consumed
\* before pattern position i; a plain symbol consumes one key symbol, a
\* symbol followed by "*" any number, and the "*" itself none.
MatchesFromStart(pattern, key) ==
    \E s \in [1..(Len(pattern) + 1) -> 0..Len(key)] :
        /\ s[1] = 0
        /\ \A i \in 1..Len(pattern) :
              IF pattern[i] = "*" THEN s[i + 1] = s[i]
              ELSE /\ IF i < Len(pattern) /\ pattern[i + 1] = "*"
                      THEN s[i + 1] >= s[i]
                      ELSE s[i + 1] = s[i] + 1
                   /\ \A j \in (s[i] + 1)..s[i + 1] : CharOk(pattern[i], key[j])

\* C1: the filtered mapping has exactly the keys of the input; a key's value
\* is the redaction marker when the slot's filter list is non-empty and one
\* of its patterns matches the key from its start, and the original value
\* otherwise (so a null or empty list gives an identical copy).
FilterContract ==
    fpc = "done" =>
        LET setting == IF fname \in DOMAIN config THEN config[fname] ELSE None
            rules == IF setting = None THEN <<>> ELSE setting[2]
            redacted(k) ==
                /\ rules # <<>>
                /\ \E i \in 1..Len(rules) : MatchesFromStart(rules[i], k)
        IN  /\ DOMAIN fresult = DOMAIN fdata
            /\ \A k \in DOMAIN fdata :
                  fresult[k] = IF redacted(k) THEN FILTERED ELSE fdata[k]
            /\ (rules = <<>> => fresult = fdata)

\* A key matched by the second pattern of a two-pattern list only, redacted
\* beside a key that no pattern matches.
FilterWitness ==
    /\ fpc = "done"
    /\ fname \in DOMAIN config
    /\ config[fname] # None
    /\ Len(config[fname][2]) = 2
    /\ \E k1, k2 \in DOMAIN fdata :
          /\ ~MatchesFromStart(config[fname][2][1], k1)
          /\ MatchesFromStart(config[fname][2][2], k1)
          /\ fdata[k1] = Str("v")
          /\ fresult[k1] = FILTERED
          /\ \A i \in 1..2 : ~MatchesFromStart(config[fname][2][i], k2)
          /\ fresult[k2] = Str("v")

----------------------------------------------------------------------------
(* C10 *)

\* The cookie filter redacts the cookie named k.
CookieRedacted(k) ==
    /\ "EXCEPTIONAL_COOKIE_FILTER" \in DOMAIN config
    /\ config["EXCEPTIONAL_COOKIE_FILTER"] # None
    /\ \E i \in 1..Len(config["EXCEPTIONAL_COOKIE_FILTER"][2]) :
          MatchesFromStart(config["EXCEPTIONAL_COOKIE_FILTER"][2][i], k)

\* The pieces of text a header value is made of: the text itself, or the
\* values of the cookies a Cookie header carries.
TextsOf(value) ==
    IF Len(value) = 2 THEN { value[2] }
    ELSE IF value[2] = "raw" THEN { value[3][k][2] : k \in DOMAIN value[3] }
    ELSE { IF Len(value[3][k]) = 2 THEN value[3][k][2] ELSE value[3][k][3] :
             k \in DOMAIN value[3] }

\* C10: in the headers section of a report for a request with cookies, the
\* Cookie header is not the raw one; the raw value of a cookie that the
\* cookie filter redacts (and that no unredacted cookie shares) occurs
\* nowhere in the section; and two requests that differ only in the values
\* of redacted cookies have identical headers sections.
CookieHeaderRegenerated ==
    /\ \A i \in 1..2 :
          (xpc[i] = "done" /\ xreq[i].cookies # <<>>) =>
              LET hdrs == xout[i][2].headers
                  cookies == xreq[i].cookies
              IN  /\ <<"Cookie">> \in DOMAIN hdrs
                  /\ hdrs[<<"Cookie">>] # xreq[i].headers[<<"Cookie">>]
                  /\ \A k \in DOMAIN cookies :
                        ( /\ CookieRedacted(k)
                          /\ \A k2 \in DOMAIN cookies :
                                cookies[k2] = cookies[k] => CookieRedacted(k2) )
                        => cookies[k][2] \notin
                               UNION { TextsOf(hdrs[h]) : h \in DOMAIN hdrs }
    /\ ( /\ xpc = <<"done", "done">>
         /\ \A k \in DOMAIN xreq[1].cookies :
               xreq[1].cookies[k] # xreq[2].cookies[k] => CookieRedacted(k) )
       => xout[1][2].headers = xout[2][2].headers

\* Two reports for requests whose redacted sid cookie differs, with an
\* unredacted cookie beside it: the same headers section, whose Cookie
\* header still carries the unredacted cookie's value.
CookieHeaderWitness ==
    /\ xpc = <<"done", "done">>
    /\ DOMAIN xreq[1].cookies = { <<"sid">>, <<"lang">> }
    /\ xreq[1].cookies[<<"sid">>] = Str("v1")
    /\ xreq[2].cookies[<<"sid">>] = Str("v2")
    /\ xreq[1].cookies[<<"lang">>] = Str("a b")
    /\ xreq[2].cookies[<<"lang">>] = Str("a b")
    /\ CookieRedacted(<<"sid">>)
    /\ ~CookieRedacted(<<"lang">>)
    /\ xout[1][2].headers = xout[2][2].headers
    /\ TextsOf(xout[1][2].headers[<<"Cookie">>]) = { "[FILTERED]", "a b" }

----------------------------------------------------------------------------
(* C2 *)

\* The _post_data calls made for request r.
CallsOf(r) == { post[r][i] : i \in 1..Len(post[r]) }

\* The calls that got as far as the delivery step.
Delivered(r) == { c \in CallsOf(r) : c.delivery # None }

\* C2: for every error routed through a wrapped handler, Flask's own
\* handler is called exactly once with the original exception and its
\* result is returned, whatever happens in the pipeline.
OriginalHandlerAlwaysRuns ==
    \A r \in Req :
        pc[r] = "done" =>
            /\ handled[r] = <<err[r]>>
            /\ result[r] = OriginalHandler(err[r])

----------------------------------------------------------------------------
(* C5 *)

\* C5 as stated: with an API key configured the URL is None exactly when
\* the host is in testing mode, or in debug mode with no debug URL, and a
\* non-empty URL otherwise; no delivery is attempted in testing mode.
UrlNoneIffTestingOrDebugWithoutUrl ==
    /\ \A self \in Inst :
          url[self] # Unset =>
              /\ (url[self] = None) <=>
                     \/ AppTesting(config)
                     \/ AppDebug(config) /\ config["EXCEPTIONAL_DEBUG_URL"] = None
              /\ url[self] # Str("")
    /\ \A r \in Req : AppTesting(config) => Delivered(r) = {}

\* C5, amended: in debug mode the URL is the configured EXCEPTIONAL_DEBUG_URL
\* (None when there is none), in testing mode too; out of debug mode it is
\* None in testing mode and the collector URL with the API key and the
\* protocol version otherwise.  So it is None exactly in debug mode without
\* a debug URL and in testing mode without debug mode, and a non-empty URL
\* otherwise.  A delivery is attempted exactly for the reports built under
\* a URL that is not None: none in testing mode without debug mode.
UrlResolvedDebugFirst ==
    /\ \A self \in Inst :
          url[self] # Unset =>
              /\ AppDebug(config) => url[self] = config["EXCEPTIONAL_DEBUG_URL"]
              /\ (~AppDebug(config) /\ AppTesting(config)) => url[self] = None
              /\ (~AppDebug(config) /\ ~AppTesting(config)) =>
                     url[self] = <<"str", "http://api.exceptional.io/api/errors",
                                   "?api_key=", "key", "&protocol_version=", 5>>
              /\ (url[self] = None) <=>
                     \/ AppDebug(config) /\ config["EXCEPTIONAL_DEBUG_URL"] = None
                     \/ ~AppDebug(config) /\ AppTesting(config)
              /\ url[self] # Str("")
    /\ \A r \in Req : \A c \in CallsOf(r) :
          c.report # None =>
              ((c.delivery # None) <=> url[c.self] # None)

\* A host in testing and debug mode with a debug URL: the report was posted
\* to the debug URL, uncompressed.
UrlDebugTestingWitness ==
    /\ AppDebug(config) /\ AppTesting(config)
    /\ pc[1] = "done"
    /\ \E c \in Delivered(1) :
          /\ url[c.self] = Str("http://debug/post")
          /\ Len(c.posts) = 1
          /\ c.posts[1].url = Str("http://debug/post")
          /\ c.posts[1].data = c.ret[2]

----------------------------------------------------------------------------
(* C6 *)

\* C6: without an API key init_app leaves both handlers unwrapped, registers
\* nothing, logs the warning (one per call), and no error produces a
\* report: g.exceptional stays unset and Flask's own handler is all that runs.
NoApiKeyNothingWired ==
    "EXCEPTIONAL_API_KEY" \notin DOMAIN config =>
        /\ handle_exception = <<>>
        /\ handle_http_exception = <<>>
        /\ extensions = <<>>
        /\ Len(log) = inits
        /\ \A i \in 1..Len(log) :
              log[i] = Warning("Missing 'EXCEPTIONAL_API_KEY' configuration.", <<>>)
        /\ \A r \in Req :
              /\ g[r] = Unset
              /\ post[r] = <<>>
              /\ pc[r] = "done" => handled[r] = <<err[r]>>

\* init_app ran without an API key and an error was then handled.
NoApiKeyWitness ==
    /\ "EXCEPTIONAL_API_KEY" \notin DOMAIN config
    /\ AppTesting(config)
    /\ inits = 1
    /\ Len(log) = 1
    /\ pc[1] = "done"
    /\ err[1].type = "ZeroDivisionError"
    /\ g[1] = Unset

----------------------------------------------------------------------------
(* C7 *)

\* The pieces of a message.
Pieces(message) == { message[i] : i \in 1..Len(message) }

\* C7: an HTTP error that goes through the wrapped HTTP-exception handler
\* produces a report if and only if its code is in EXCEPTIONAL_HTTP_CODES;
\* the message of a tracked code's report contains the code; for an
\* untracked code nothing is built, stored or delivered; Flask's own
\* handler runs in both cases.
HttpReportIffTracked ==
    \A r \in Req :
        (pc[r] = "done" /\ err[r].code # 0 /\ handle_http_exception # <<>>) =>
            /\ (\E c \in CallsOf(r) : c.report # None)
                   <=> err[r].code \in config["EXCEPTIONAL_HTTP_CODES"]
            /\ \A c \in CallsOf(r) :
                  c.report # None =>
                      ToString(err[r].code) \in Pieces(c.report[2].exception.message)
            /\ err[r].code \notin config["EXCEPTIONAL_HTTP_CODES"] =>
                   post[r] = <<>> /\ g[r] = Unset
            /\ handled[r] = <<err[r]>>

----------------------------------------------------------------------------
(* C8 *)

\* C8 as stated: a collector status >= 400 leaves the delivery step as an
\* exception and is not logged as a connection failure; a status < 400
\* neither logs nor raises.
HttpErrorPropagates ==
    \A r \in Req : \A c \in Delivered(r) :
        /\ (c.net.kind = "HTTPError" /\ c.net.code >= 400) =>
               c.delivery[2] # None /\ c.logs = <<>>
        /\ (c.net.kind = "ok" \/ (c.net.kind = "HTTPError" /\ c.net.code < 400)) =>
               c.delivery[2] = None /\ c.logs = <<>>

\* C8, amended: a collector status >= 400 is raised again by the HTTPError
\* handler and caught by the URLError handler around it (HTTPError is a
\* URLError): it is logged as the one "Unable to connect" warning with the
\* URL and the payload, and nothing leaves the delivery step, which returns
\* the report; a status < 400 neither logs nor raises.
HttpErrorLoggedAsWarning ==
    \A r \in Req : \A c \in Delivered(r) :
        /\ (c.net.kind = "HTTPError" /\ c.net.code >= 400) =>
               /\ c.delivery[2] = None
               /\ IsOk(c.ret)
               /\ c.logs = <<Warning(UNABLE_TO_CONNECT, <<url[c.self], c.ret[2]>>)>>
        /\ (c.net.kind = "ok" \/ (c.net.kind = "HTTPError" /\ c.net.code < 400)) =>
               /\ c.delivery[2] = None
               /\ IsOk(c.ret)
               /\ c.logs = <<>>

\* The collector answered 503 and the application logged the warning.
HttpErrorWitness ==
    /\ pc[1] = "done"
    /\ \E c \in Delivered(1) :
          /\ c.net = Net("HTTPError", 503)
          /\ Len(c.logs) = 1
          /\ log # <<>>
          /\ log[Len(log)] = c.logs[1]
          /\ handled[1] = <<err[1]>>

----------------------------------------------------------------------------
(* C9 *)

\* C9: a connection failure or a malformed response never leaves the
\* delivery step; the connection failure logs exactly one warning with the
\* URL and the undelivered payload, the malformed response logs nothing,
\* and the build returns the serialized report in both cases.
ConnectionFailureContained ==
    \A r \in Req : \A c \in Delivered(r) :
        /\ c.net.kind = "URLError" =>
               /\ c.delivery[2] = None
               /\ c.ret = Ok(Dumps(c.report[2]))
               /\ c.logs = <<[level |-> "warning", message |-> UNABLE_TO_CONNECT,
                              args |-> <<url[c.self], Dumps(c.report[2])>>]>>
               /\ c.posts = <<>>
        /\ c.net.kind = "BadStatusLine" =>
               /\ c.delivery[2] = None
               /\ c.ret = Ok(Dumps(c.report[2]))
               /\ c.logs = <<>>

\* The collector was unreachable: the one warning in the application's log
\* names the URL, and Flask's own handler ran once.
ConnectionFailureWitness ==
    /\ pc[1] = "done"
    /\ \E c \in Delivered(1) :
          /\ c.net.kind = "URLError"
          /\ Len(log) = 1
          /\ log[1].args[1] = url[c.self]
          /\ handled[1] = <<err[1]>>

----------------------------------------------------------------------------
(* C3 *)

\* The keys request r contributed, and for a contributed key the value of
\* its last write: of the last call that names it, the keyword argument if
\* there is one, the entry of the data mapping otherwise.
KeysOfCall(call) ==
    (IF call[1] = None THEN {} ELSE DOMAIN call[1][2]) \cup DOMAIN call[2]
Contributed(r) == UNION { KeysOfCall(calls[r][i]) : i \in 1..Len(calls[r]) }
LastWrite(r, k) ==
    LET last == CHOOSE i \in 1..Len(calls[r]) :
                    /\ k \in KeysOfCall(calls[r][i])
                    /\ \A j \in (i + 1)..Len(calls[r]) : k \notin KeysOfCall(calls[r][j])
    IN  IF k \in DOMAIN calls[r][last][2] THEN calls[r][last][2][k]
        ELSE calls[r][last][1][2][k]

\* C3: the context section of a request's report holds what that request
\* contributed with context() and nothing of any other request: it is null
\* when the request made no context() call.
ContextIsRequestScoped ==
    \A r \in Req : \A c \in CallsOf(r) :
        c.report # None =>
            IF calls[r] = <<>> THEN c.report[2].context = None
            ELSE /\ c.report[2].context # None
                 /\ DOMAIN c.report[2].context[2] = Contributed(r)
                 /\ \A k \in Contributed(r) :
                       c.report[2].context[2][k] = LastWrite(r, k)

\* Request 1 contributed context twice and request 2 never: the report of
\* 1 has the merged data, the report of 2 a null context.
ContextScopedWitness ==
    /\ pc[1] = "done" /\ pc[2] = "done"
    /\ Len(calls[1]) = 2 /\ calls[2] = <<>>
    /\ g[1] # Unset /\ g[2] # Unset
    /\ g[1][3].context = Dict(("foo" :> Str("bar")) @@ ("baz" :> Str("kw")))
    /\ g[2][3].context = None

----------------------------------------------------------------------------
(* C4 *)

\* C4: within a request scope the stored context is the key-wise merge of
\* the mappings supplied so far, in call order: null before the first call,
\* then every key supplied so far with the value of its last write.
ContextMergesInCallOrder ==
    \A r \in Req :
        IF calls[r] = <<>> THEN exceptional_context[r] = None
        ELSE /\ exceptional_context[r] # None
             /\ DOMAIN exceptional_context[r][2] = Contributed(r)
             /\ \A k \in Contributed(r) : exceptional_context[r][2][k] = LastWrite(r, k)

\* Two calls: the first gives foo twice (the keyword argument wins) and baz,
\* the second adds obj and keeps the rest.
ContextMergeWitness ==
    /\ Len(calls[1]) = 2
    /\ calls[1][1] = <<Dict(("foo" :> Str("bar")) @@ ("baz" :> Str("qux"))),
                       ("foo" :> Str("kw"))>>
    /\ calls[1][2] = <<None, ("obj" :> Obj)>>
    /\ exceptional_context[1] =
           Dict(("foo" :> Str("kw")) @@ ("baz" :> Str("qux")) @@ ("obj" :> Obj))

----------------------------------------------------------------------------
(* C11 *)

\* C11: the seeding of the parameters never raises and has three outcomes:
\* the parsed mapping for a body that parses as JSON, the single entry
\* INVALID_JSON with the raw body when the parse fails, and the empty
\* mapping when no JSON is attempted.
SeedHasThreeOutcomes ==
    \A i \in DOMAIN xpc :
        xpc[i] = "done" =>
            /\ xseed[i][1] = "dict"
            /\ xreq[i].json = <<"none">> => xseed[i] = Dict(<<>>)
            /\ xreq[i].json = <<"invalid">> =>
                   xseed[i] = Dict((<<"INVALID_JSON">> :> xreq[i].data))
            /\ xreq[i].json[1] = "dict" => xseed[i] = xreq[i].json

----------------------------------------------------------------------------
(* C12 *)

\* The entry of a form field and of a file field in the parameters.
FormEntry(values) == IF Len(values) = 1 THEN values[1] ELSE List(values)
FileEntry(files) ==
    IF Len(files) = 1 THEN files[1].filename
    ELSE List([ j \in 1..Len(files) |-> files[j].filename ])

\* C12: the parameters of a report are the JSON seed overlaid by the form
\* fields and then by the file fields, the later overlay winning; a form
\* field with one value is that value and otherwise the list of its values,
\* a file field is its file name or the list of its file names.  (A field
\* the parameter filter names is redacted.)
ParametersOverlayInOrder ==
    \A i \in DOMAIN xpc :
        (xpc[i] = "done" /\ IsOk(xout[i])) =>
            LET request == xreq[i]
                parameters == xout[i][2].parameters
                seed == xseed[i][2]
                Expected(k) ==
                    IF k \in DOMAIN request.files THEN FileEntry(request.files[k])
                    ELSE IF k \in DOMAIN request.form THEN FormEntry(request.form[k])
                    ELSE seed[k]
            IN  /\ DOMAIN parameters =
                       DOMAIN seed \cup DOMAIN request.form \cup DOMAIN request.files
                /\ \A k \in DOMAIN parameters :
                       /\ parameters[k] \in { Expected(k), FILTERED }
                       /\ config["EXCEPTIONAL_PARAMETER_FILTER"] = None =>
                              parameters[k] = Expected(k)

\* A JSON body, a form field and two uploaded files under the one name foo:
\* the parameter is the list of the file names; the form field baz, that
\* nothing overlays, is its one value.
ParametersOverlayWitness ==
    /\ xpc = <<"done">>
    /\ IsOk(xout[1])
    /\ config["EXCEPTIONAL_PARAMETER_FILTER"] = None
    /\ <<"foo">> \in DOMAIN xseed[1][2]
    /\ { <<"foo">>, <<"baz">> } \subseteq DOMAIN xreq[1].form
    /\ <<"foo">> \in DOMAIN xreq[1].files
    /\ xout[1][2].parameters[<<"foo">>] = List(<<Str("a.txt"), Str("b.txt")>>)
    /\ xout[1][2].parameters[<<"baz">>] = Str("qux")

----------------------------------------------------------------------------
(* C13 *)

\* C13: an init_app call on an application that is already wired changes
\* nothing of the application but its log, which gets one warning: the
\* first call (with an API key) wraps both handlers with its instance and
\* registers it, every later call leaves handlers and registry as they are.
RepeatedInitIsNoOp ==
    [][ (inits' = inits + 1 /\ "EXCEPTIONAL_API_KEY" \in DOMAIN config) =>
            IF extensions = <<>>
            THEN /\ \E self \in Inst :
                       /\ handle_exception' = <<self>>
                       /\ handle_http_exception' = <<self>>
                       /\ extensions' = ("exceptional" :> self)
                 /\ log' = log
            ELSE /\ UNCHANGED <<handle_exception, handle_http_exception, extensions>>
                 /\ log' = Append(log,
                              Warning("Repeated Exceptional initialization attempt.", <<>>))
      ]_vars

\* Two instances initialized the application: the first wraps the handlers
\* and is registered, the second left one warning.
RepeatedInitWitness ==
    /\ inits = 2
    /\ url[1] # Unset /\ url[2] # Unset
    /\ Len(handle_exception) = 1 /\ Len(handle_http_exception) = 1
    /\ extensions = ("exceptional" :> handle_exception[1])
    /\ log = <<Warning("Repeated Exceptional initialization attempt.", <<>>)>>

----------------------------------------------------------------------------
(* C14 *)

\* The publish() calls that built a report.
Published == { i \in 1..Len(pub) : pub[i].call.report # None }

\* C14: a report built by publish(config, traceback) has the exception
\* section of the given trace (exception_class is the trace's exception
\* type) and null request and context sections, also when a request
\* context with contributed context data is on top of the stack.
PublishedReportHasNoRequest ==
    \A i \in Published :
        LET report == pub[i].call.report[2]
        IN  /\ report.exception = GetExceptionData(pub[i].traceback)
            /\ report.exception.exception_class = pub[i].traceback.exception_type
            /\ report.request = None
            /\ report.context = None

\* A report published inside a request that had contributed context data.
PublishedInRequestWitness ==
    /\ Published # {}
    /\ \E i \in Published :
          /\ pub[i].top = 1
          /\ exceptional_context[1] = Dict(("foo" :> Str("bar")))
          /\ pub[i].call.report[2].exception.exception_class = "ValueError"
          /\ pub[i].call.report[2].context = None

----------------------------------------------------------------------------
(* C15 *)

\* C15: a report built in testing mode, by either hook or by a publish()
\* made inside a request, is stored in the request's g.exceptional, and
\* the stored report's exception_class is the type of the reported error.
ReportStoredInTestingMode ==
    /\ \A r \in Req : \A c \in CallsOf(r) :
          (c.report # None /\ AppTesting(config)) =>
              /\ g[r] = Dumps(c.report[2])
              /\ g[r][3].exception.exception_class = err[r].type
    /\ \A i \in Published :
          (pub[i].top # 0 /\ AppTesting(config)) =>
              /\ g[pub[i].top] # Unset
              /\ g[pub[i].top][3].exception.exception_class
                     = pub[i].traceback.exception_type

----------------------------------------------------------------------------
(* C16 *)

\* C16: without an API key init_app and publish() both complete without
\* raising, log the warning, build no report and attempt no delivery.
MissingKeyIsNonFatal ==
    "EXCEPTIONAL_API_KEY" \notin DOMAIN config =>
        /\ Len(log) = inits
        /\ \A i \in 1..Len(log) :
              log[i] = Warning("Missing 'EXCEPTIONAL_API_KEY' configuration.", <<>>)
        /\ \A r \in Req : post[r] = <<>>
        /\ \A i \in 1..Len(pub) :
              /\ IsOk(pub[i].call.ret)
              /\ pub[i].logs = <<Warning("Missing 'EXCEPTIONAL_API_KEY' configuration.", <<>>)>>
              /\ pub[i].call.report = None
              /\ pub[i].call.delivery = None

----------------------------------------------------------------------------
(* C19 *)

\* C19 as stated: the backtrace has one entry per frame of the trace and
\* its first element is the first frame of the trace.
BacktraceStartsWithFirstFrame ==
    \A i \in Published :
        LET backtrace == pub[i].call.report[2].exception.backtrace
            frames == pub[i].traceback.frames
        IN  /\ Len(backtrace) = Len(frames)
            /\ frames # <<>> => backtrace[1] = FormatFrame(frames[1])

\* C19, amended: the backtrace has one entry per frame of the trace, each
\* prepended in turn, so it is the trace in reverse order: its first
\* element is the last frame of the trace and its last element the first.
BacktraceIsReversedTrace ==
    \A i \in Published :
        LET backtrace == pub[i].call.report[2].exception.backtrace
            frames == pub[i].traceback.frames
        IN  /\ Len(backtrace) = Len(frames)
            /\ \A j \in 1..Len(frames) :
                   backtrace[j] = FormatFrame(frames[Len(frames) + 1 - j])

\* A published trace of two different frames: the backtrace starts with
\* the second.
BacktraceWitness ==
    \E i \in Published :
        /\ Len(pub[i].traceback.frames) = 2
        /\ pub[i].traceback.frames[1] # pub[i].traceback.frames[2]
        /\ pub[i].call.report[2].exception.backtrace[1]
               = FormatFrame(pub[i].traceback.frames[2])

----------------------------------------------------------------------------
(* C17 *)

\* The characters whose UTF-8 encodings the byte strings at hand can hold.
KnownChars == { 97, 34, 233, 170601 }

IsPrefix(p, seq) == Len(p) <= Len(seq) /\ SubSeq(seq, 1, Len(p)) = p

\* What a byte string holds: the characters encoded in it, in order, with
\* one U+FFFD for each stretch of bytes that encode nothing.
RECURSIVE Skeleton(_, _)
Skeleton(bytes, gap) ==
    IF bytes = <<>> THEN <<>>
    ELSE IF \E cp \in KnownChars : IsPrefix(EncodeUtf8(<<cp>>), bytes)
    THEN LET cp == CHOOSE c \in KnownChars : IsPrefix(EncodeUtf8(<<c>>), bytes)
         IN  <<cp>> \o Skeleton(Drop(bytes, Len(EncodeUtf8(<<cp>>))), FALSE)
    ELSE (IF gap THEN <<>> ELSE <<REPLACEMENT>>) \o Skeleton(Tail(bytes), TRUE)

\* A text with every run of U+FFFD taken for one.
RECURSIVE Collapse(_, _)
Collapse(text, gap) ==
    IF text = <<>> THEN <<>>
    ELSE IF text[1] = REPLACEMENT
    THEN (IF gap THEN <<>> ELSE <<REPLACEMENT>>) \o Collapse(Tail(text), TRUE)
    ELSE <<text[1]>> \o Collapse(Tail(text), FALSE)

\* C17: the serialization of a byte string never raises, whatever bytes it
\* holds; the result parses, every valid character comes back unchanged
\* and every invalid byte sequence as U+FFFD in its place.
InvalidUtf8RoundTrips ==
    \A t \in Req :
        bpc[t] \in { "finally", "done" } =>
            /\ IsOk(bout[t])
            /\ IsOk(Loads(bout[t][2]))
            /\ Collapse(Loads(bout[t][2])[2], FALSE) = Skeleton(bin[t], FALSE)

----------------------------------------------------------------------------
(* C18 *)

\* C18: once every build that began has completed, whether its
\* serialization returned or raised, json.encoder.encode_basestring is
\* the function it was before the builds.
EncoderRestoredAfterBuilds ==
    (\A t \in Req : bpc[t] \in { "idle", "done" }) =>
        encode_basestring = ORIGINAL_ENCODER

====
